---- MODULE Spec2Model ----
(***************************************************************************)
(* Model of the change-gear calculator's search engine                     *)
(* (src/geartrain.js: Shaft, shaftsInterfere, GearTrain,                   *)
(* compareGearTrains, PermutationStackFrame, GearTrainPermutations).       *)
(*                                                                         *)
(* Arrays are sequences; the code's 0-based indices are kept and mapped    *)
(* by At/SetAt/Splice1.  Floating point quantities are modelled exactly:   *)
(* ratios and forces as reduced fractions <<n, d>> with d > 0, the         *)
(* addendum in tenths, distances doubled so that the /2 of shaftDistance   *)
(* stays in the integers.                                                  *)
(***************************************************************************)
EXTENDS Integers, Sequences, FiniteSets, TLC

\* ------------------------------------------------------------------ bounds

\* Largest number of shafts of a configuration (the validator guarantees >= 2).
MaxShafts == 3
\* Largest number of gears in the change-gear pool.
MaxGears == 3
\* Separate input-gear pools (ascending, as the caller sorts them).
InputGearSets == {<<20, 20>>, <<20, 50>>}
\* Tooth counts the pools are drawn from.
Teeth == {20, 50}
\* Values of spacerSize and inputAdjacentSize.
SpacerSizes == {0, 30}
\* Values of minShaftDistance and maxShaftDistance (0: no bound).
MinDistances == {0, 45}
MaxDistances == {0, 60}
\* Values of the gear module.
Modules == {1, 2}
\* Values of desiredOutputMultiplier, as fractions.
Targets == {<<1, 1>>}

\* Calls of iterate() on a finished search that the caller is followed through.
MaxFinishedCalls == 2

\* this.addendum = 1.2, in hundredths.
AddendumHundredths == 120

\* ----------------------------------------------------------- array helpers

At(seq, i) == seq[i + 1]

SetAt(seq, i, v) == [seq EXCEPT ![i + 1] = v]

\* seq.splice(i, 1)
Splice1(seq, i) == SubSeq(seq, 1, i) \o SubSeq(seq, i + 2, Len(seq))

\* seq.indexOf(v): the first index holding v, or -1
IndexOf(seq, v) ==
    IF \E i \in 1..Len(seq) : seq[i] = v
    THEN (CHOOSE i \in 1..Len(seq) : seq[i] = v /\ \A j \in 1..(i - 1) : seq[j] # v) - 1
    ELSE -1

\* F applied to the value of v, which is computed once however often F reads it.
Bind(v, F(_)) == CHOOSE r \in {F(x) : x \in {v}} : TRUE

\* -------------------------------------------------------------- fractions

Abs(x) == IF x < 0 THEN -x ELSE x

RECURSIVE Gcd(_, _)
Gcd(a, b) == IF b = 0 THEN a ELSE Gcd(b, a % b)

\* The fraction n/d in lowest terms with a positive denominator.
Rat(n, d) ==
    Bind(<<n, d, Gcd(Abs(n), Abs(d))>>,
         LAMBDA x : IF x[2] < 0 THEN <<(-x[1]) \div x[3], (-x[2]) \div x[3]>>
                    ELSE <<x[1] \div x[3], x[2] \div x[3]>>)

RatMul(a, b) == Bind(<<a, b>>, LAMBDA p : Rat(p[1][1] * p[2][1], p[1][2] * p[2][2]))

RatDivInt(a, k) == Bind(<<a, k>>, LAMBDA p : Rat(p[1][1], p[1][2] * p[2]))

RatSub(a, b) ==
    Bind(<<a, b>>, LAMBDA p : Rat(p[1][1] * p[2][2] - p[2][1] * p[1][2], p[1][2] * p[2][2]))

RatAbs(a) == Bind(a, LAMBDA x : <<Abs(x[1]), x[2]>>)

RatLess(a, b) == Bind(<<a, b>>, LAMBDA p : p[1][1] * p[2][2] < p[2][1] * p[1][2])

\* Math.max
RatMax(a, b) == Bind(<<a, b>>, LAMBDA p : IF RatLess(p[1], p[2]) THEN p[2] ELSE p[1])

\* The sign of a fraction: -1, 0 or 1.
RatSign(a) == Bind(a, LAMBDA x : IF x[1] < 0 THEN -1 ELSE IF x[1] > 0 THEN 1 ELSE 0)

\* ------------------------------------------------------------------ Shaft

\* An array slot that was never assigned (new Array(n)).
NoShaft == [gearCount |-> 0, inputGear |-> 0, outputGear |-> 0, spacerSize |-> 0]

\* new Shaft(inputGear, outputGear, spacerSize)
Shaft(inputGear, outputGear, spacerSize) ==
    IF outputGear > 0
    THEN [gearCount |-> 2, inputGear |-> inputGear, outputGear |-> outputGear,
          spacerSize |-> spacerSize]
    ELSE [gearCount |-> 1, inputGear |-> inputGear, outputGear |-> inputGear,
          spacerSize |-> spacerSize]

\* shaftsInterfere reporting interference when the two distances are equal.
shaftsInterfereOnEqual(input, output, addendumHundredths) ==
    LET meshingDistance == input.outputGear + output.inputGear
        fromInput == IF input.gearCount = 1 THEN input.spacerSize ELSE input.inputGear
        fromOutput == IF output.gearCount = 1 THEN output.spacerSize ELSE output.outputGear
        nonMeshingHundredths == 100 * (fromInput + fromOutput) + 2 * addendumHundredths
    IN  nonMeshingHundredths >= 100 * meshingDistance

\* shaftsInterfere(input, output, addendum), the addendum in hundredths (the
\* engine passes 1.2, the parameter's default is 1.25) and both distances
\* compared in hundredths.
shaftsInterfere(input, output, addendumHundredths) ==
    LET meshingDistance == input.outputGear + output.inputGear
        fromInput == IF input.gearCount = 1 THEN input.spacerSize ELSE input.inputGear
        fromOutput == IF output.gearCount = 1 THEN output.spacerSize ELSE output.outputGear
        nonMeshingHundredths == 100 * (fromInput + fromOutput) + 2 * addendumHundredths
    IN  nonMeshingHundredths > 100 * meshingDistance

\* -------------------------------------------------------------- GearTrain

RECURSIVE MultiplierUpTo(_, _)
\* updateOutputMultiplier's loop, run for i = 1 .. k
MultiplierUpTo(s, k) ==
    IF k < 1 THEN <<1, 1>>
    ELSE RatMul(MultiplierUpTo(s, k - 1), Rat(At(s, k - 1).outputGear, At(s, k).inputGear))

RECURSIVE NumeratorUpToInputs(_, _)
\* The numerator taken from the input gears of the driving shafts.
NumeratorUpToInputs(s, k) ==
    IF k < 1 THEN 1 ELSE NumeratorUpToInputs(s, k - 1) * At(s, k - 1).inputGear

RECURSIVE NumeratorUpTo(_, _)
NumeratorUpTo(s, k) ==
    IF k < 1 THEN 1 ELSE NumeratorUpTo(s, k - 1) * At(s, k - 1).outputGear

RECURSIVE DenominatorUpTo(_, _)
DenominatorUpTo(s, k) ==
    IF k < 1 THEN 1 ELSE DenominatorUpTo(s, k - 1) * At(s, k).inputGear

\* The torque after shaft k taken from the last pair of gears alone.
TorqueUpToLastPair(s, k) ==
    IF k < 1 THEN <<1, 1>>
    ELSE Rat(At(s, k).inputGear, At(s, k - 1).outputGear)

RECURSIVE TorqueUpTo(_, _)
\* updateMaxForce's torque after the loop body of shaft k
TorqueUpTo(s, k) ==
    IF k < 1 THEN <<1, 1>>
    ELSE RatMul(TorqueUpTo(s, k - 1), Rat(At(s, k).inputGear, At(s, k - 1).outputGear))

RECURSIVE MaxForceUpTo(_, _)
\* updateMaxForce's maxForce after the loop body of shaft k
MaxForceUpTo(s, k) ==
    IF k < 1 THEN RatDivInt(<<1, 1>>, At(s, 0).inputGear)
    ELSE LET torque == TorqueUpTo(s, k)
         IN  RatMax(RatMax(MaxForceUpTo(s, k - 1), RatDivInt(torque, At(s, k).inputGear)),
                    RatDivInt(torque, At(s, k).outputGear))

\* updateMaxForce
updateMaxForce(s) == MaxForceUpTo(s, Len(s) - 1)

\* A GearTrain whose copied shafts keep the gearCount of a new Shaft(), 1.
GearTrainGearCountNotCopied(s) ==
    Bind(Bind(s, LAMBDA from :
                [i \in 1..Len(from) |->
                    [gearCount |-> Shaft(0, 0, 0).gearCount,
                     inputGear |-> from[i].inputGear,
                     outputGear |-> from[i].outputGear,
                     spacerSize |-> from[i].spacerSize]]),
         LAMBDA copy :
            [shafts |-> copy,
             numerator |-> NumeratorUpTo(copy, Len(copy) - 1),
             denominator |-> DenominatorUpTo(copy, Len(copy) - 1),
             outputMultiplier |-> Rat(NumeratorUpTo(copy, Len(copy) - 1),
                                      DenominatorUpTo(copy, Len(copy) - 1)),
             maxForce |-> updateMaxForce(copy)])

\* new GearTrain(shafts): a copy of every shaft, field by field, and the
\* derived quantities; updateOutputFraction overwrites outputMultiplier last.
GearTrain(s) ==
    Bind(Bind(s, LAMBDA from :
                [i \in 1..Len(from) |->
                    [gearCount |-> from[i].gearCount, inputGear |-> from[i].inputGear,
                     outputGear |-> from[i].outputGear,
                     spacerSize |-> from[i].spacerSize]]),
         LAMBDA copy :
            [shafts |-> copy,
             numerator |-> NumeratorUpTo(copy, Len(copy) - 1),
             denominator |-> DenominatorUpTo(copy, Len(copy) - 1),
             outputMultiplier |-> Rat(NumeratorUpTo(copy, Len(copy) - 1),
                                      DenominatorUpTo(copy, Len(copy) - 1)),
             maxForce |-> updateMaxForce(copy)])

RECURSIVE DistanceSum2Meshing(_, _, _, _)
\* The loop adding, for each pair of shafts, the output gear of the one and
\* the input gear of the next.
DistanceSum2Meshing(s, mod, from, to) ==
    IF from >= to THEN 0
    ELSE (At(s, from - 1).outputGear * mod + At(s, from).inputGear * mod)
         + DistanceSum2Meshing(s, mod, from + 1, to)

RECURSIVE DistanceSum2(_, _, _, _)
\* shaftDistance's loop for i = from .. to - 1, doubled
DistanceSum2(s, mod, from, to) ==
    IF from >= to THEN 0
    ELSE (At(s, from - 1).outputGear * mod + At(s, from - 1).inputGear * mod)
         + DistanceSum2(s, mod, from + 1, to)

\* Twice train.shaftDistance(module, firstShaft, lastShaft)
shaftDistance2(train, mod, firstShaft, lastShaft) ==
    Bind(train.shafts, LAMBDA s :
        IF firstShaft > Len(s) - 2 THEN 0
        ELSE DistanceSum2(s, mod, firstShaft + 1,
                          IF lastShaft = -1 THEN Len(s) ELSE lastShaft))

\* ------------------------------------------------------ compareGearTrains

\* compareGearTrains without the maxForce tie-break.
compareGearTrainsNoTieBreak(a, b, desired) ==
    RatSign(RatSub(RatAbs(RatSub(a.outputMultiplier, desired)),
                   RatAbs(RatSub(b.outputMultiplier, desired))))

\* The sign of compareGearTrains(a, b, desiredOutputMultiplier)
compareGearTrains(a, b, desired) ==
    LET dev1 == RatAbs(RatSub(a.outputMultiplier, desired))
        dev2 == RatAbs(RatSub(b.outputMultiplier, desired))
        byDev == RatSign(RatSub(dev1, dev2))
    IN  IF byDev # 0 THEN byDev ELSE RatSign(RatSub(a.maxForce, b.maxForce))

\* A sort that keeps one of each train: the first occurrences, ranked.
SortTrainsDistinct(trains, desired) ==
    LET idx == {k \in 1..Len(trains) : \A j \in 1..(k - 1) : trains[j] # trains[k]}
        Before(j, k) == Bind(compareGearTrains(trains[j], trains[k], desired),
                             LAMBDA c : c < 0 \/ (c = 0 /\ j < k))
        Rank(k) == Cardinality({j \in idx : Before(j, k)}) + 1
    IN  [p \in 1..Cardinality(idx) |-> trains[CHOOSE k \in idx : Rank(k) = p]]

\* Array.prototype.sort with compareGearTrains as the comparator. The sort is
\* stable: a train goes after those that compare smaller and after the earlier
\* ones that compare equal, and a sequence already in order comes back as it is.
SortTrains(trains, desired) ==
    LET n == Len(trains)
        Before(j, k) ==
            Bind(compareGearTrains(trains[j], trains[k], desired),
                 LAMBDA c : c < 0 \/ (c = 0 /\ j < k))
        Rank(k) == Cardinality({j \in 1..n : Before(j, k)}) + 1
    IN  IF \A i \in 1..(n - 1) : compareGearTrains(trains[i], trains[i + 1], desired) <= 0
        THEN trains
        ELSE Bind({<<Rank(k), k>> : k \in 1..n},
                  LAMBDA placed :
                    [p \in 1..n |-> trains[CHOOSE k \in 1..n : <<p, k>> \in placed]])

\* -------------------------------------------------- PermutationStackFrame

\* frame.shafts is a reference to the engine's one shafts array, which is the
\* variable shafts below.
PermutationStackFrame(availableGears, currentShaft, inputIndex, outputIndex) ==
    [availableGears |-> availableGears, currentShaft |-> currentShaft,
     inputIndex |-> inputIndex, outputIndex |-> outputIndex]

\* --------------------------------------------------- GearTrainPermutations

VARIABLES
    shaftCount, changeGearSet, inputGearSet, sharedInputGearSet,
    spacerSize, inputAdjacentSize, module, minShaftDistance, maxShaftDistance,
    desiredOutputMultiplier,
    shafts, permutationStack, gearTrains,
    foundSolutions, skippedSolutions, discardedSolutions,
    permutationCount, inputGearIndex,
    completed, finalized, finishedCalls, stackOps,
    probe, driver

config == <<shaftCount, changeGearSet, inputGearSet, sharedInputGearSet,
            spacerSize, inputAdjacentSize, module, minShaftDistance,
            maxShaftDistance, desiredOutputMultiplier>>

search == <<shafts, permutationStack, gearTrains, foundSolutions,
            skippedSolutions, discardedSolutions, permutationCount, inputGearIndex>>

\* completed: the value the last iterate() returned (false before the first
\* call); finalized: finalizeCalculation() has run; finishedCalls: the calls
\* of iterate() that found the search finished.
\* stackOps: how many frames the last call of iterate() popped and pushed.
caller == <<completed, finalized, finishedCalls, stackOps>>

\* probe: one call of a free function of geartrain.js, its arguments and, once
\* made, its result; NoProbe while the engine is the one being run.
NoProbe == [op |-> "none"]

\* driver: the calls of setupCalculation() made so far, the iterateSolution
\* timers pending in the page, and how often finalizeCalculation() has run on
\* the engine of the last setup.
NoDriver == [setups |-> 1, timers |-> 0, finalizeRuns |-> 0]

vars == <<config, search, caller, probe, driver>>

RECURSIVE calculatePermutationCountOne(_, _)
\* The permutation count with a single way of filling the last shaft.
calculatePermutationCountOne(shaftCnt, gearCount) ==
    IF shaftCnt = 1 THEN 1
    ELSE gearCount * calculatePermutationCountOne(shaftCnt - 1, gearCount - 1)
         + gearCount * (gearCount - 1)
             * calculatePermutationCountOne(shaftCnt - 1, gearCount - 2)

RECURSIVE calculatePermutationCount(_, _)
\* calculatePermutationCount(shaftCount, gearCount)
calculatePermutationCount(shaftCnt, gearCount) ==
    IF shaftCnt = 1 THEN gearCount
    ELSE gearCount * calculatePermutationCount(shaftCnt - 1, gearCount - 1)
         + gearCount * (gearCount - 1) * calculatePermutationCount(shaftCnt - 1, gearCount - 2)

\* constraintsViolated with the maximum tested only when no minimum is set.
constraintsViolatedElse(s, currentShaft) ==
    IF currentShaft = 0 THEN FALSE
    ELSE Bind(shaftDistance2(GearTrain(SubSeq(s, 1, currentShaft + 1)), module, 0, -1),
              LAMBDA distance2 :
                IF minShaftDistance > 0 THEN distance2 < 2 * minShaftDistance
                ELSE maxShaftDistance > 0 /\ distance2 > 2 * maxShaftDistance)

\* constraintsViolated(shafts, currentShaft)
constraintsViolated(s, currentShaft) ==
    IF currentShaft = 0 THEN FALSE
    ELSE Bind(shaftDistance2(GearTrain(SubSeq(s, 1, currentShaft + 1)), module, 0, -1),
              LAMBDA distance2 :
                \/ (minShaftDistance > 0 /\ distance2 < 2 * minShaftDistance)
                \/ (maxShaftDistance > 0 /\ distance2 > 2 * maxShaftDistance))

\* The part of the engine that iterateShafts reads and writes.
Engine ==
    [shafts |-> shafts, permutationStack |-> permutationStack,
     gearTrains |-> gearTrains, foundSolutions |-> foundSolutions,
     skippedSolutions |-> skippedSolutions,
     discardedSolutions |-> discardedSolutions,
     pops |-> 0, pushes |-> 0]

\* registerGearTrain assigning the results instead of appending to them.
registerGearTrainOverwrite(e) ==
    [e EXCEPT !.gearTrains = <<GearTrain(e.shafts)>>]

\* registerGearTrain
registerGearTrain(e) ==
    [e EXCEPT !.gearTrains = Append(e.gearTrains, GearTrain(e.shafts))]

\* The final-shaft loop body with a repeated tooth count passed over uncounted.
FinalShaftStepUncounted(e, availableGears, currentShaft, lastIndex) ==
    IF lastIndex > 0 /\ At(availableGears, lastIndex - 1) = At(availableGears, lastIndex)
    THEN e
    ELSE LET placed == [e EXCEPT !.shafts =
                            SetAt(@, currentShaft,
                                  Shaft(At(availableGears, lastIndex), 0, spacerSize))]
         IN  IF constraintsViolated(placed.shafts, currentShaft)
             THEN [placed EXCEPT !.skippedSolutions = @ + 1]
             ELSE IF ~shaftsInterfere(At(placed.shafts, currentShaft - 1),
                                      At(placed.shafts, currentShaft), AddendumHundredths)
                  THEN [registerGearTrain(placed) EXCEPT !.foundSolutions = @ + 1]
                  ELSE [placed EXCEPT !.discardedSolutions = @ + 1]

\* The final-shaft loop body registering a train without the interference test.
FinalShaftStepUnchecked(e, availableGears, currentShaft, lastIndex) ==
    IF lastIndex > 0 /\ At(availableGears, lastIndex - 1) = At(availableGears, lastIndex)
    THEN [e EXCEPT !.skippedSolutions = @ + 1]
    ELSE LET placed == [e EXCEPT !.shafts =
                            SetAt(@, currentShaft,
                                  Shaft(At(availableGears, lastIndex), 0, spacerSize))]
         IN  IF constraintsViolated(placed.shafts, currentShaft)
             THEN [placed EXCEPT !.skippedSolutions = @ + 1]
             ELSE [registerGearTrain(placed) EXCEPT !.foundSolutions = @ + 1]

\* The final-shaft loop body leaving a train outside the distance bounds uncounted.
FinalShaftStepSilent(e, availableGears, currentShaft, lastIndex) ==
    IF lastIndex > 0 /\ At(availableGears, lastIndex - 1) = At(availableGears, lastIndex)
    THEN [e EXCEPT !.skippedSolutions = @ + 1]
    ELSE LET placed == [e EXCEPT !.shafts =
                            SetAt(@, currentShaft,
                                  Shaft(At(availableGears, lastIndex), 0, spacerSize))]
         IN  IF constraintsViolated(placed.shafts, currentShaft)
             THEN placed
             ELSE IF ~shaftsInterfere(At(placed.shafts, currentShaft - 1),
                                      At(placed.shafts, currentShaft), AddendumHundredths)
                  THEN [registerGearTrain(placed) EXCEPT !.foundSolutions = @ + 1]
                  ELSE [placed EXCEPT !.discardedSolutions = @ + 1]

\* The final-shaft loop body with every registered train holding the engine's
\* own shafts array instead of a copy of it.
FinalShaftStepAliased(e, availableGears, currentShaft, lastIndex) ==
    IF lastIndex > 0 /\ At(availableGears, lastIndex - 1) = At(availableGears, lastIndex)
    THEN [e EXCEPT !.skippedSolutions = @ + 1]
    ELSE LET written == SetAt(e.shafts, currentShaft,
                              Shaft(At(availableGears, lastIndex), 0, spacerSize))
             placed == [e EXCEPT !.shafts = written,
                                 !.gearTrains = [k \in DOMAIN @ |->
                                                    [@[k] EXCEPT !.shafts = written]]]
         IN  IF constraintsViolated(placed.shafts, currentShaft)
             THEN [placed EXCEPT !.skippedSolutions = @ + 1]
             ELSE IF ~shaftsInterfere(At(placed.shafts, currentShaft - 1),
                                      At(placed.shafts, currentShaft), AddendumHundredths)
                  THEN [registerGearTrain(placed) EXCEPT !.foundSolutions = @ + 1]
                  ELSE [placed EXCEPT !.discardedSolutions = @ + 1]

\* The final-shaft loop body without the continue after a repeated tooth
\* count: the candidate is counted as skipped and then evaluated as well.
FinalShaftStepSkipFallsThrough(e, availableGears, currentShaft, lastIndex) ==
    LET counted == IF lastIndex > 0
                      /\ At(availableGears, lastIndex - 1) = At(availableGears, lastIndex)
                   THEN [e EXCEPT !.skippedSolutions = @ + 1]
                   ELSE e
        placed == [counted EXCEPT !.shafts =
                       SetAt(@, currentShaft,
                             Shaft(At(availableGears, lastIndex), 0, spacerSize))]
    IN  IF constraintsViolated(placed.shafts, currentShaft)
        THEN [placed EXCEPT !.skippedSolutions = @ + 1]
        ELSE IF ~shaftsInterfere(At(placed.shafts, currentShaft - 1),
                                 At(placed.shafts, currentShaft), AddendumHundredths)
             THEN [registerGearTrain(placed) EXCEPT !.foundSolutions = @ + 1]
             ELSE [placed EXCEPT !.discardedSolutions = @ + 1]

\* One pass of the final-shaft loop body, for lastIndex
FinalShaftStep(e, availableGears, currentShaft, lastIndex) ==
    IF lastIndex > 0 /\ At(availableGears, lastIndex - 1) = At(availableGears, lastIndex)
    THEN [e EXCEPT !.skippedSolutions = @ + 1]
    ELSE LET placed == [e EXCEPT !.shafts =
                            SetAt(@, currentShaft,
                                  Shaft(At(availableGears, lastIndex), 0, spacerSize))]
         IN  IF constraintsViolated(placed.shafts, currentShaft)
             THEN [placed EXCEPT !.skippedSolutions = @ + 1]
             ELSE IF ~shaftsInterfere(At(placed.shafts, currentShaft - 1),
                                      At(placed.shafts, currentShaft), AddendumHundredths)
                  THEN [registerGearTrain(placed) EXCEPT !.foundSolutions = @ + 1]
                  ELSE [placed EXCEPT !.discardedSolutions = @ + 1]

RECURSIVE FinalShaftLoop(_, _, _, _)
\* for(lastIndex = from; lastIndex < availableGears.length; lastIndex++)
FinalShaftLoop(e, availableGears, currentShaft, from) ==
    IF from >= Len(availableGears) THEN e
    ELSE Bind(FinalShaftStep(e, availableGears, currentShaft, from),
              LAMBDA next : FinalShaftLoop(next, availableGears, currentShaft, from + 1))

\* RemainingGears with the output gear left in the pool.
RemainingGearsInputOnly(availableGears, inputIndex, outputIndex) ==
    Splice1(availableGears, inputIndex)

\* RemainingGears without the index shift for an output gear behind the input gear.
RemainingGearsUnshifted(availableGears, inputIndex, outputIndex) ==
    LET withoutInput == Splice1(availableGears, inputIndex)
    IN  IF inputIndex = outputIndex THEN withoutInput
        ELSE Splice1(withoutInput, outputIndex)

\* The gears left for the next shaft once inputIndex and outputIndex are taken.
RemainingGears(availableGears, inputIndex, outputIndex) ==
    LET withoutInput == Splice1(availableGears, inputIndex)
    IN  IF inputIndex = outputIndex THEN withoutInput
        ELSE IF outputIndex < inputIndex THEN Splice1(withoutInput, outputIndex)
        ELSE Splice1(withoutInput, outputIndex - 1)

\* The repeat test applied to one-gear choices as well.
SkipChoiceAnyShaft(availableGears, outputIndex, outputGear) ==
    /\ outputIndex > 0
    /\ At(availableGears, outputIndex - 1) = At(availableGears, outputIndex)

\* Whether the choice (inputIndex, outputIndex) is optimised out as a repeat.
SkipChoice(availableGears, outputIndex, outputGear) ==
    /\ outputIndex > 0
    /\ outputGear > 0
    /\ At(availableGears, outputIndex - 1) = At(availableGears, outputIndex)

\* The step for a frame that is not the final shaft's writing the new shaft over
\* the shaft before it as well.
ExpandShaftOverParent(e, frame) ==
    LET availableGears == frame.availableGears
        currentShaft == frame.currentShaft
        wrapped == frame.outputIndex >= Len(availableGears)
        outputIndex == IF wrapped THEN 0 ELSE frame.outputIndex
        inputIndex == IF wrapped THEN frame.inputIndex + 1 ELSE frame.inputIndex
    IN  IF inputIndex >= Len(availableGears) THEN e
        ELSE LET inputGear == At(availableGears, inputIndex)
                 outputGear == IF inputIndex = outputIndex THEN 0
                               ELSE At(availableGears, outputIndex)
                 remainingGears == RemainingGears(availableGears, inputIndex, outputIndex)
                 resumed == [frame EXCEPT !.outputIndex = outputIndex + 1,
                                          !.inputIndex = inputIndex]
                 placed == [e EXCEPT
                              !.shafts = SetAt(SetAt(@, currentShaft,
                                                     Shaft(inputGear, outputGear, spacerSize)),
                                               currentShaft - 1,
                                               Shaft(inputGear, outputGear, spacerSize)),
                              !.permutationStack = Append(@, resumed),
                              !.pushes = @ + 1]
             IN  IF SkipChoice(availableGears, outputIndex, outputGear)
                 THEN [placed EXCEPT !.skippedSolutions = @ +
                          calculatePermutationCount(Len(e.shafts) - currentShaft - 1,
                                                    Len(remainingGears))]
                 ELSE [placed EXCEPT !.permutationStack =
                          Append(@, PermutationStackFrame(remainingGears,
                                                          currentShaft + 1, 0, 0)),
                                     !.pushes = @ + 1]

\* iterateShafts keeping a frame whose input cursor is past the pool.
ExpandShaftExhaustedKept(e, frame) ==
    LET availableGears == frame.availableGears
        currentShaft == frame.currentShaft
        wrapped == frame.outputIndex >= Len(availableGears)
        outputIndex == IF wrapped THEN 0 ELSE frame.outputIndex
        inputIndex == IF wrapped THEN frame.inputIndex + 1 ELSE frame.inputIndex
    IN  IF inputIndex >= Len(availableGears)
        THEN [e EXCEPT !.permutationStack =
                           Append(@, [frame EXCEPT !.inputIndex = Len(availableGears),
                                                   !.outputIndex = 1]),
                       !.pushes = @ + 1]
        ELSE LET inputGear == At(availableGears, inputIndex)
                 outputGear == IF inputIndex = outputIndex THEN 0
                               ELSE At(availableGears, outputIndex)
                 remainingGears == RemainingGears(availableGears, inputIndex, outputIndex)
                 resumed == [frame EXCEPT !.outputIndex = outputIndex + 1,
                                          !.inputIndex = inputIndex]
                 placed == [e EXCEPT
                              !.shafts = SetAt(@, currentShaft,
                                               Shaft(inputGear, outputGear, spacerSize)),
                              !.permutationStack = Append(@, resumed),
                              !.pushes = @ + 1]
             IN  IF SkipChoice(availableGears, outputIndex, outputGear)
                 THEN [placed EXCEPT !.skippedSolutions = @ +
                          calculatePermutationCount(Len(e.shafts) - currentShaft - 1,
                                                    Len(remainingGears))]
                 ELSE [placed EXCEPT !.permutationStack =
                          Append(@, PermutationStackFrame(remainingGears,
                                                          currentShaft + 1, 0, 0)),
                                     !.pushes = @ + 1]

\* iterateShafts taking the gears out of the frame's own pool instead of a copy.
ExpandShaftPoolInPlace(e, frame) ==
    LET availableGears == frame.availableGears
        currentShaft == frame.currentShaft
        wrapped == frame.outputIndex >= Len(availableGears)
        outputIndex == IF wrapped THEN 0 ELSE frame.outputIndex
        inputIndex == IF wrapped THEN frame.inputIndex + 1 ELSE frame.inputIndex
    IN  IF inputIndex >= Len(availableGears) THEN e
        ELSE LET inputGear == At(availableGears, inputIndex)
                 outputGear == IF inputIndex = outputIndex THEN 0
                               ELSE At(availableGears, outputIndex)
                 remainingGears == RemainingGears(availableGears, inputIndex, outputIndex)
                 resumed == [frame EXCEPT !.outputIndex = outputIndex + 1,
                                          !.inputIndex = inputIndex,
                                          !.availableGears = remainingGears]
                 placed == [e EXCEPT
                              !.shafts = SetAt(@, currentShaft,
                                               Shaft(inputGear, outputGear, spacerSize)),
                              !.permutationStack = Append(@, resumed),
                              !.pushes = @ + 1]
             IN  IF SkipChoice(availableGears, outputIndex, outputGear)
                 THEN [placed EXCEPT !.skippedSolutions = @ +
                          calculatePermutationCount(Len(e.shafts) - currentShaft - 1,
                                                    Len(remainingGears))]
                 ELSE [placed EXCEPT !.permutationStack =
                          Append(@, PermutationStackFrame(remainingGears,
                                                          currentShaft + 1, 0, 0)),
                                     !.pushes = @ + 1]

\* iterateShafts for a frame that is not the final shaft's
ExpandShaft(e, frame) ==
    LET availableGears == frame.availableGears
        currentShaft == frame.currentShaft
        wrapped == frame.outputIndex >= Len(availableGears)
        outputIndex == IF wrapped THEN 0 ELSE frame.outputIndex
        inputIndex == IF wrapped THEN frame.inputIndex + 1 ELSE frame.inputIndex
    IN  IF inputIndex >= Len(availableGears) THEN e
        ELSE LET inputGear == At(availableGears, inputIndex)
                 outputGear == IF inputIndex = outputIndex THEN 0
                               ELSE At(availableGears, outputIndex)
                 remainingGears == RemainingGears(availableGears, inputIndex, outputIndex)
                 resumed == [frame EXCEPT !.outputIndex = outputIndex + 1,
                                          !.inputIndex = inputIndex]
                 placed == [e EXCEPT
                              !.shafts = SetAt(@, currentShaft,
                                               Shaft(inputGear, outputGear, spacerSize)),
                              !.permutationStack = Append(@, resumed),
                              !.pushes = @ + 1]
             IN  IF SkipChoice(availableGears, outputIndex, outputGear)
                 THEN [placed EXCEPT !.skippedSolutions = @ +
                          calculatePermutationCount(Len(e.shafts) - currentShaft - 1,
                                                    Len(remainingGears))]
                 ELSE [placed EXCEPT !.permutationStack =
                          Append(@, PermutationStackFrame(remainingGears,
                                                          currentShaft + 1, 0, 0)),
                                     !.pushes = @ + 1]

\* iterateShafts(): the engine after the call and the value returned
iterateShafts(e) ==
    IF Len(e.permutationStack) <= 0 THEN [engine |-> e, ret |-> TRUE]
    ELSE LET n == Len(e.permutationStack)
             frame == e.permutationStack[n]
             popped == [e EXCEPT !.permutationStack = SubSeq(@, 1, n - 1),
                                 !.pops = @ + 1]
         IN  IF frame.currentShaft = Len(e.shafts) - 1
             THEN [engine |-> FinalShaftLoop(popped, frame.availableGears,
                                             frame.currentShaft, 0),
                   ret |-> FALSE]
             ELSE [engine |-> ExpandShaft(popped, frame), ret |-> FALSE]

\* The gear set the first shaft's gear is taken from.
firstGearSet == IF sharedInputGearSet THEN changeGearSet ELSE inputGearSet

\* The pool for shaft 1 with every gear of the seed's tooth count removed.
SeedAvailableGearsAll(gear) ==
    IF sharedInputGearSet
    THEN SelectSeq(changeGearSet, LAMBDA g : g # gear)
    ELSE changeGearSet

\* The pool handed to shaft 1 for the seed gear.
SeedAvailableGears(gear) ==
    IF sharedInputGearSet /\ IndexOf(changeGearSet, gear) # -1
    THEN Splice1(changeGearSet, IndexOf(changeGearSet, gear))
    ELSE changeGearSet

\* The seed taken from the start of the first-shaft pool whatever the index.
SeedEngineAtStart(e, index) ==
    LET gear == At(firstGearSet, 0)
    IN  [e EXCEPT !.shafts = SetAt(@, 0, Shaft(gear, 0, inputAdjacentSize)),
                  !.permutationStack =
                      Append(@, PermutationStackFrame(SeedAvailableGears(gear), 1, 0, 0)),
                  !.pushes = @ + 1]

\* The engine once iterate() has placed the next input gear and pushed its frame.
SeedEngineAt(e, index) ==
    LET gear == At(firstGearSet, index)
    IN  [e EXCEPT !.shafts = SetAt(@, 0, Shaft(gear, 0, inputAdjacentSize)),
                  !.permutationStack =
                      Append(@, PermutationStackFrame(SeedAvailableGears(gear), 1, 0, 0)),
                  !.pushes = @ + 1]

\* The same at the engine's inputGearIndex.
SeedEngine(e) == SeedEngineAt(e, inputGearIndex)

\* The total for one fixed input gear, whatever the size of the first-shaft pool.
SetupPermutationCountOneSeed(count, shared, change, input) ==
    IF shared
    THEN calculatePermutationCount(count - 1, Len(change) - 1)
    ELSE calculatePermutationCount(count - 1, Len(change))

\* The total setupCalculation computes.
SetupPermutationCount(count, shared, change, input) ==
    IF shared
    THEN Len(change) * calculatePermutationCount(count - 1, Len(change) - 1)
    ELSE Len(input) * calculatePermutationCount(count - 1, Len(change))

\* Ascending sequences of 1..n tooth counts.
GearSets(n) ==
    {s \in UNION {[1..k -> Teeth] : k \in 1..n} :
        \A i \in 1..(Len(s) - 1) : s[i] <= s[i + 1]}

\* A new engine, configured by the caller, after setupCalculation().
Init ==
    /\ shaftCount \in 2..MaxShafts
    /\ changeGearSet \in GearSets(MaxGears)
    /\ sharedInputGearSet \in BOOLEAN
    /\ inputGearSet \in (IF sharedInputGearSet THEN {<<>>} ELSE InputGearSets)
    /\ spacerSize \in SpacerSizes
    /\ inputAdjacentSize \in SpacerSizes
    /\ module \in Modules
    /\ minShaftDistance \in MinDistances
    /\ maxShaftDistance \in MaxDistances
    /\ desiredOutputMultiplier \in Targets
    /\ shafts = [i \in 1..shaftCount |-> NoShaft]
    /\ permutationStack = <<>>
    /\ gearTrains = <<>>
    /\ foundSolutions = 0
    /\ skippedSolutions = 0
    /\ discardedSolutions = 0
    /\ inputGearIndex = 0
    /\ permutationCount = SetupPermutationCount(shaftCount, sharedInputGearSet,
                                                changeGearSet, inputGearSet)
    /\ completed = FALSE
    /\ finalized = FALSE
    /\ finishedCalls = 0
    /\ probe = NoProbe
    /\ stackOps = <<0, 0>>
    /\ driver = NoDriver

\* Writes the engine record and iterate()'s return value back to the state.
Store(r) ==
    /\ shafts' = r.engine.shafts
    /\ permutationStack' = r.engine.permutationStack
    /\ gearTrains' = r.engine.gearTrains
    /\ foundSolutions' = r.engine.foundSolutions
    /\ skippedSolutions' = r.engine.skippedSolutions
    /\ discardedSolutions' = r.engine.discardedSolutions
    /\ completed' = r.ret
    /\ stackOps' = <<r.engine.pops, r.engine.pushes>>

\* iterate() on a finished search starting over from the first input gear.
IterateFinishedRestart ==
    /\ inputGearIndex >= Len(firstGearSet)
    /\ Len(permutationStack) <= 0
    /\ finishedCalls < MaxFinishedCalls
    /\ completed' = TRUE
    /\ finishedCalls' = finishedCalls + 1
    /\ inputGearIndex' = 0
    /\ stackOps' = <<0, 0>>
    /\ UNCHANGED <<driver, probe, config, shafts, permutationStack, gearTrains, foundSolutions,
                   skippedSolutions, discardedSolutions, permutationCount, finalized>>

\* iterate() on a finished search returning false.
IterateFinishedFalse ==
    /\ inputGearIndex >= Len(firstGearSet)
    /\ Len(permutationStack) <= 0
    /\ finishedCalls < MaxFinishedCalls
    /\ completed' = FALSE
    /\ finishedCalls' = finishedCalls + 1
    /\ stackOps' = <<0, 0>>
    /\ UNCHANGED <<driver, probe, config, search, finalized>>

\* iterate() when the search is already finished
IterateFinished ==
    /\ inputGearIndex >= Len(firstGearSet)
    /\ Len(permutationStack) <= 0
    /\ finishedCalls < MaxFinishedCalls
    /\ completed' = TRUE
    /\ finishedCalls' = finishedCalls + 1
    /\ stackOps' = <<0, 0>>
    /\ UNCHANGED <<driver, probe, config, search, finalized>>

\* iterate() with a recursion in progress
IterateStack ==
    /\ ~(inputGearIndex >= Len(firstGearSet) /\ Len(permutationStack) <= 0)
    /\ Len(permutationStack) > 0
    /\ \E r \in {iterateShafts(Engine)} : Store(r)
    /\ UNCHANGED <<driver, probe, config, permutationCount, inputGearIndex, finalized, finishedCalls>>

\* iterate() taking the next input gear and returning before the new frame is
\* looked at.
IterateSeedOnly ==
    /\ ~(inputGearIndex >= Len(firstGearSet) /\ Len(permutationStack) <= 0)
    /\ ~(Len(permutationStack) > 0)
    /\ inputGearIndex < Len(firstGearSet)
    /\ Store([engine |-> SeedEngine(Engine), ret |-> FALSE])
    /\ inputGearIndex' = inputGearIndex + 1
    /\ UNCHANGED <<driver, probe, config, permutationCount, finalized, finishedCalls>>

\* iterate() taking the next input gear
IterateSeed ==
    /\ ~(inputGearIndex >= Len(firstGearSet) /\ Len(permutationStack) <= 0)
    /\ ~(Len(permutationStack) > 0)
    /\ inputGearIndex < Len(firstGearSet)
    /\ \E r \in {iterateShafts(SeedEngine(Engine))} : Store(r)
    /\ inputGearIndex' = inputGearIndex + 1
    /\ UNCHANGED <<driver, probe, config, permutationCount, finalized, finishedCalls>>

iterate == IterateFinished \/ IterateStack \/ IterateSeed

\* finalizeCalculation(), which the caller runs once iterate() has returned true
finalizeCalculation ==
    /\ completed
    /\ gearTrains' = SortTrains(gearTrains, desiredOutputMultiplier)
    /\ finalized' = TRUE
    /\ UNCHANGED <<driver, probe, config, shafts, permutationStack, foundSolutions, skippedSolutions,
                   discardedSolutions, permutationCount, inputGearIndex, completed,
                   finishedCalls, stackOps>>

Next == IterateFinished \/ IterateStack \/ IterateSeed \/ finalizeCalculation

Spec == Init /\ [][Next]_vars

\* The configurations the termination check runs over: every pool, shaft
\* count, spacer and distance bound of Init, at module 1 and inputAdjacentSize 0.
LiveInit == Init /\ module = 1 /\ inputAdjacentSize = 0

\* The caller keeps calling iterate() (iterateSolution re-arms its timer until
\* iterate() returns true).
LiveSpec == LiveInit /\ [][Next]_vars /\ WF_vars(iterate)

\* ----------------------------------------- one engine set up more than once

MaxSetups == 2

\* setupCalculation() called on the engine as it stands: it makes a new shaft
\* array and stack and resets the counters, the cursor and the total.
setupCalculation ==
    /\ driver.setups < MaxSetups
    /\ shafts' = [i \in 1..shaftCount |-> NoShaft]
    /\ foundSolutions' = 0
    /\ skippedSolutions' = 0
    /\ discardedSolutions' = 0
    /\ permutationStack' = <<>>
    /\ inputGearIndex' = 0
    /\ permutationCount' = SetupPermutationCount(shaftCount, sharedInputGearSet,
                                                 changeGearSet, inputGearSet)
    /\ completed' = FALSE
    /\ finalized' = FALSE
    /\ finishedCalls' = 0
    /\ stackOps' = <<0, 0>>
    /\ driver' = [driver EXCEPT !.setups = @ + 1]
    /\ UNCHANGED <<probe, config, gearTrains>>

\* The configurations of LiveInit without spacers and distance bounds.
ResetupInit ==
    LiveInit /\ spacerSize = 0 /\ minShaftDistance = 0 /\ maxShaftDistance = 0

ResetupNext ==
    setupCalculation \/ IterateFinished \/ IterateStack \/ IterateSeed \/ finalizeCalculation

\* Any sequence of setupCalculation(), iterate() and finalizeCalculation() on
\* one engine.
ResetupSpec == ResetupInit /\ [][ResetupNext]_vars

\* ------------------------------------------- the scenario of three shafts

\* Three shafts, change gears 20, 30, 40 and 50 shared with the input shaft,
\* target 1.0, no distance bounds, spacer 0, at either gear module, after
\* setupCalculation().
ScenarioInit ==
    /\ shaftCount = 3
    /\ changeGearSet = <<20, 30, 40, 50>>
    /\ sharedInputGearSet = TRUE
    /\ inputGearSet = <<>>
    /\ spacerSize = 0
    /\ inputAdjacentSize = 0
    /\ module \in Modules
    /\ minShaftDistance = 0
    /\ maxShaftDistance = 0
    /\ desiredOutputMultiplier = <<1, 1>>
    /\ shafts = [i \in 1..shaftCount |-> NoShaft]
    /\ permutationStack = <<>>
    /\ gearTrains = <<>>
    /\ foundSolutions = 0
    /\ skippedSolutions = 0
    /\ discardedSolutions = 0
    /\ inputGearIndex = 0
    /\ permutationCount = SetupPermutationCount(shaftCount, sharedInputGearSet,
                                                changeGearSet, inputGearSet)
    /\ completed = FALSE
    /\ finalized = FALSE
    /\ finishedCalls = 0
    /\ probe = NoProbe
    /\ stackOps = <<0, 0>>
    /\ driver = NoDriver

ScenarioSpec == ScenarioInit /\ [][Next]_vars

\* ------------------------------------------------ the free functions alone

\* Tooth counts, spacer sizes and addenda (in hundredths) the interference
\* test is called with, and the largest arguments of the permutation count.
ProbeTeeth == {1, 2, 20}
ProbeSpacers == {0, 1}
ProbeAddenda == {0, 100, 120, 125}
MaxProbeShafts == 4
MaxProbeGears == 5

ProbeShafts ==
    {Shaft(i, o, s) : i \in ProbeTeeth, o \in ProbeTeeth \cup {0}, s \in ProbeSpacers}

InterfereProbes ==
    [op : {"shaftsInterfere"}, input : ProbeShafts, output : ProbeShafts,
     addendum : ProbeAddenda, done : {FALSE}, result : {FALSE}]

CountProbes ==
    [op : {"calculatePermutationCount"}, shaftCount : 1..MaxProbeShafts,
     gearCount : 0..MaxProbeGears, done : {FALSE}, result : {0}]

\* An engine as its constructor leaves it, and one call about to be made.
ProbeInit ==
    /\ shaftCount = 0
    /\ changeGearSet = <<>>
    /\ sharedInputGearSet = FALSE
    /\ inputGearSet = <<>>
    /\ spacerSize = 0
    /\ inputAdjacentSize = 0
    /\ module = 1
    /\ minShaftDistance = 0
    /\ maxShaftDistance = 0
    /\ desiredOutputMultiplier = <<1, 1>>
    /\ shafts = <<>>
    /\ permutationStack = <<>>
    /\ gearTrains = <<>>
    /\ foundSolutions = 0
    /\ skippedSolutions = 0
    /\ discardedSolutions = 0
    /\ inputGearIndex = 0
    /\ permutationCount = 0
    /\ completed = FALSE
    /\ finalized = FALSE
    /\ finishedCalls = 0
    /\ probe \in InterfereProbes \cup CountProbes
    /\ stackOps = <<0, 0>>
    /\ driver = [NoDriver EXCEPT !.setups = 0]

\* shaftsInterfere(input, output, addendum) is called
CallShaftsInterfere ==
    /\ probe.op = "shaftsInterfere"
    /\ ~probe.done
    /\ probe' = [probe EXCEPT !.done = TRUE,
                              !.result = shaftsInterfere(probe.input, probe.output,
                                                         probe.addendum)]
    /\ UNCHANGED <<config, search, caller, driver>>

\* calculatePermutationCount(shaftCount, gearCount) is called
CallCalculatePermutationCount ==
    /\ probe.op = "calculatePermutationCount"
    /\ ~probe.done
    /\ probe' = [probe EXCEPT !.done = TRUE,
                              !.result = calculatePermutationCount(probe.shaftCount,
                                                                   probe.gearCount)]
    /\ UNCHANGED <<config, search, caller, driver>>

ProbeNext == CallShaftsInterfere \/ CallCalculatePermutationCount

ProbeSpec == ProbeInit /\ [][ProbeNext]_vars

\* ------------------------------------------------ the page's driver

MaxSubmits == 2
MaxBurst == 2

\* What validateInput leaves in the form fields that vary here: the number of
\* shafts and the gear lists as typed, in the order typed.
DriverShaftCounts == {2, 3}
EnteredGearSets == {<<50, 20>>, <<20, 100>>, <<100, 20, 50>>}
EnteredInputSets == {<<20>>, <<100, 20>>}

\* String(n) of a non-negative integer, as its decimal digits.
RECURSIVE Digits(_)
Digits(n) == IF n < 10 THEN <<n>> ELSE Append(Digits(n \div 10), n % 10)

\* a < b for two strings of digits, compared code unit by code unit.
StringLess(a, b) ==
    \/ \E i \in 1..Len(a) :
           /\ i <= Len(b)
           /\ \A j \in 1..(i - 1) : a[j] = b[j]
           /\ a[i] < b[i]
    \/ (Len(a) < Len(b) /\ \A j \in 1..Len(a) : a[j] = b[j])

\* Array.prototype.sort() without a comparator: the elements in the order of
\* their strings, equal strings in their previous order.
DefaultSort(arr) ==
    LET n == Len(arr)
        Before(j, k) == \/ StringLess(Digits(arr[j]), Digits(arr[k]))
                        \/ (arr[j] = arr[k] /\ j < k)
        Rank(k) == Cardinality({j \in 1..n : Before(j, k)}) + 1
    IN  [p \in 1..n |-> arr[CHOOSE k \in 1..n : Rank(k) = p]]

\* One iterate() call on the engine e with first-shaft cursor index.
iterateCall(e, index) ==
    LET e0 == [e EXCEPT !.pops = 0, !.pushes = 0]
    IN  IF index >= Len(firstGearSet) /\ Len(e.permutationStack) <= 0
        THEN [engine |-> e0, index |-> index, ret |-> TRUE]
        ELSE IF Len(e.permutationStack) > 0
        THEN [engine |-> iterateShafts(e0).engine, index |-> index,
              ret |-> iterateShafts(e0).ret]
        ELSE [engine |-> iterateShafts(SeedEngineAt(e0, index)).engine,
              index |-> index + 1,
              ret |-> iterateShafts(SeedEngineAt(e0, index)).ret]

\* The do-while loop of iterateSolution: iterate() is called until it returns
\* true or, after n calls, the 100 ms have passed.
RECURSIVE IterateLoop(_, _, _)
IterateLoop(e, index, n) ==
    LET r == iterateCall(e, index)
    IN  IF r.ret \/ n <= 1 THEN r ELSE IterateLoop(r.engine, r.index, n - 1)

\* The page once loaded: no form submitted, no timer pending.
DriverInit ==
    /\ shaftCount = 0
    /\ changeGearSet = <<>>
    /\ sharedInputGearSet = FALSE
    /\ inputGearSet = <<>>
    /\ spacerSize = 0
    /\ inputAdjacentSize = 0
    /\ module = 1
    /\ minShaftDistance = 0
    /\ maxShaftDistance = 0
    /\ desiredOutputMultiplier = <<1, 1>>
    /\ shafts = <<>>
    /\ permutationStack = <<>>
    /\ gearTrains = <<>>
    /\ foundSolutions = 0
    /\ skippedSolutions = 0
    /\ discardedSolutions = 0
    /\ inputGearIndex = 0
    /\ permutationCount = 0
    /\ completed = FALSE
    /\ finalized = FALSE
    /\ finishedCalls = 0
    /\ stackOps = <<0, 0>>
    /\ probe = NoProbe
    /\ driver = [setups |-> 0, timers |-> 0, finalizeRuns |-> 0]

\* formSubmit with input that validates: app.setupCalculation() makes a new
\* engine, hands it the fields and calls its setupCalculation(); then a timer
\* for iterateSolution is set.
formSubmit ==
    /\ driver.setups < MaxSubmits
    /\ \E count \in DriverShaftCounts, change \in EnteredGearSets, shared \in BOOLEAN :
       \E input \in (IF shared THEN {<<>>} ELSE EnteredInputSets) :
           /\ shaftCount' = count
           /\ sharedInputGearSet' = shared
           /\ inputGearSet' = DefaultSort(input)
           /\ changeGearSet' = DefaultSort(change)
           /\ permutationCount' = SetupPermutationCount(count, shared, DefaultSort(change),
                                                        DefaultSort(input))
           /\ shafts' = [i \in 1..count |-> NoShaft]
    /\ spacerSize' = 0
    /\ inputAdjacentSize' = 0
    /\ module' = 1
    /\ minShaftDistance' = 0
    /\ maxShaftDistance' = 0
    /\ desiredOutputMultiplier' = <<1, 1>>
    /\ permutationStack' = <<>>
    /\ gearTrains' = <<>>
    /\ foundSolutions' = 0
    /\ skippedSolutions' = 0
    /\ discardedSolutions' = 0
    /\ inputGearIndex' = 0
    /\ completed' = FALSE
    /\ finalized' = FALSE
    /\ finishedCalls' = 0
    /\ stackOps' = <<0, 0>>
    /\ driver' = [setups |-> driver.setups + 1, timers |-> driver.timers + 1,
                  finalizeRuns |-> 0]
    /\ UNCHANGED probe

\* A timer fires iterateSolution: it calls app.iterate() on the current engine
\* until it returns true or the time is up, then either finalizes and displays
\* or sets the timer again.
iterateSolution ==
    /\ driver.timers > 0
    /\ \E n \in 1..MaxBurst :
           \E r \in {IterateLoop(Engine, inputGearIndex, n)} :
               /\ shafts' = r.engine.shafts
               /\ permutationStack' = r.engine.permutationStack
               /\ foundSolutions' = r.engine.foundSolutions
               /\ skippedSolutions' = r.engine.skippedSolutions
               /\ discardedSolutions' = r.engine.discardedSolutions
               /\ stackOps' = <<r.engine.pops, r.engine.pushes>>
               /\ inputGearIndex' = r.index
               /\ completed' = r.ret
               /\ IF r.ret
                  THEN /\ gearTrains' = SortTrains(r.engine.gearTrains, desiredOutputMultiplier)
                       /\ finalized' = TRUE
                       /\ finishedCalls' = finishedCalls + 1
                       /\ driver' = [driver EXCEPT !.timers = @ - 1,
                                                   !.finalizeRuns = @ + 1]
                  ELSE /\ gearTrains' = r.engine.gearTrains
                       /\ UNCHANGED <<finalized, finishedCalls, driver>>
    /\ UNCHANGED <<probe, config, permutationCount>>

DriverNext == formSubmit \/ iterateSolution

DriverSpec == DriverInit /\ [][DriverNext]_vars

\* ------------------------------------------------------------ properties

\* The number of indices of seq that hold v.
Count(seq, v) == Cardinality({i \in DOMAIN seq : seq[i] = v})

\* The (inputGear, outputGear) tooth counts of a shaft sequence.
ToothSequence(s) == [i \in DOMAIN s |-> <<s[i].inputGear, s[i].outputGear>>]

\* How many gears of t teeth a shaft sequence takes from the change-gear pool:
\* one per single-gear shaft and two per two-gear shaft after shaft 0, and
\* the gear of shaft 0 when the input gear comes from the same pool.
UsedCount(s, t) ==
    Cardinality({i \in 2..Len(s) : s[i].inputGear = t})
    + Cardinality({i \in 2..Len(s) : s[i].gearCount = 2 /\ s[i].outputGear = t})
    + (IF sharedInputGearSet /\ s[1].inputGear = t THEN 1 ELSE 0)

\* The tooth counts on a shaft sequence.
TeethOf(s) == {s[i].inputGear : i \in DOMAIN s} \cup {s[i].outputGear : i \in DOMAIN s}

\* Twice the distance from the first to the last shaft of a shaft sequence.
TrainDistance2(s) ==
    LET Sum[i \in 0..(Len(s) - 1)] ==
            IF i = 0 THEN 0 ELSE Sum[i - 1] + (s[i].outputGear + s[i].inputGear) * module
    IN  Sum[Len(s) - 1]

WithinDistanceBounds(s) ==
    /\ (minShaftDistance > 0 => TrainDistance2(s) >= 2 * minShaftDistance)
    /\ (maxShaftDistance > 0 => TrainDistance2(s) <= 2 * maxShaftDistance)

\* C1: once iterate() has reported completion, found + skipped + discarded
\* equals the permutation count computed by setupCalculation.
C1_CountersSumToTotal ==
    completed =>
        foundSolutions + skippedSolutions + discardedSolutions = permutationCount

C1_Witness ==
    /\ completed
    /\ shaftCount = 3
    /\ foundSolutions > 0
    /\ skippedSolutions > 0
    /\ discardedSolutions > 0

\* C2: at completion no two gear trains of the results have the same sequence
\* of (inputGear, outputGear) tooth counts, also when a pool holds a tooth
\* count more than once.
C2_NoDuplicateTrains ==
    completed =>
        \A i, j \in DOMAIN gearTrains :
            i # j => ToothSequence(gearTrains[i].shafts) # ToothSequence(gearTrains[j].shafts)

\* C3: every registered gear train is free of interference between every
\* pair of consecutive shafts.
C3_NoInterferenceAnywhere ==
    \A k \in DOMAIN gearTrains :
        \A i \in 1..(shaftCount - 1) :
            ~shaftsInterfere(At(gearTrains[k].shafts, i - 1), At(gearTrains[k].shafts, i),
                             AddendumHundredths)

\* The shafts an intermediate position can carry, from the pool's tooth counts.
IntermediateShafts ==
    LET pool == {changeGearSet[i] : i \in DOMAIN changeGearSet}
    IN  {Shaft(a, 0, spacerSize) : a \in pool}
        \cup {Shaft(a, b, spacerSize) : a \in pool, b \in pool}

\* Every assignment of gears to the shafts: one gear of the first-shaft pool,
\* one or two gears per intermediate shaft, one gear on the last shaft.
Assignments ==
    LET firsts == {Shaft(firstGearSet[i], 0, inputAdjacentSize) : i \in DOMAIN firstGearSet}
        lasts == {Shaft(changeGearSet[i], 0, spacerSize) : i \in DOMAIN changeGearSet}
        middles == [1..(shaftCount - 2) -> IntermediateShafts]
    IN  {<<f>> \o m \o <<l>> : f \in firsts, m \in middles, l \in lasts}

\* An assignment the search has to report.
Admissible(s) ==
    /\ \A t \in TeethOf(s) : UsedCount(s, t) <= Count(changeGearSet, t)
    /\ WithinDistanceBounds(s)
    /\ ~shaftsInterfere(s[Len(s) - 1], s[Len(s)], AddendumHundredths)

\* C4: at completion every admissible assignment (pool entries used at most as
\* often as they occur, distance bounds met, last shaft pair not interfering)
\* has a gear train with its tooth sequence in the results.
C4_Exhaustive ==
    (completed /\ ~finalized) =>
        \A s \in Assignments :
            Admissible(s) =>
                \E k \in DOMAIN gearTrains :
                    ToothSequence(gearTrains[k].shafts) = ToothSequence(s)

C4_Witness ==
    /\ completed
    /\ shaftCount = 3
    /\ Len(changeGearSet) = 3
    /\ changeGearSet[1] = changeGearSet[2]
    /\ \E s \in Assignments : Admissible(s) /\ s[2].gearCount = 2
    /\ \E s \in Assignments : ~Admissible(s)

\* C5: an iterate() call on a search that has reported completion returns
\* complete again and leaves results, counters, total, frame stack and
\* first-shaft cursor as they are.
C5_IdempotentAfterCompletion ==
    [][(completed /\ iterate) => (completed' /\ UNCHANGED search)]_vars

C5_Witness ==
    /\ completed
    /\ finishedCalls >= 2
    /\ foundSolutions > 0

\* C6: a caller that keeps calling iterate() eventually gets true, and gets
\* true only from a call that found the pools and the frame stack exhausted.
C6_Terminates ==
    /\ <>completed
    /\ [][completed' => (inputGearIndex >= Len(firstGearSet) /\ permutationStack = <<>>)]_vars

C6_Witness ==
    /\ completed
    /\ shaftCount = 3
    /\ inputGearIndex >= 2

\* C7: the number of gear trains in the results equals found, after every
\* iterate() call and at finalize.
C7_ResultsMatchFound == Len(gearTrains) = foundSolutions

C7_Witness ==
    /\ finalized
    /\ foundSolutions >= 2

\* C8: every gear train in the results has a shaft distance of at least
\* minShaftDistance when that is set and at most maxShaftDistance when that
\* is set.
C8_ResultsWithinDistanceBounds ==
    \A k \in DOMAIN gearTrains : WithinDistanceBounds(gearTrains[k].shafts)

C8_Witness ==
    /\ completed
    /\ minShaftDistance > 0
    /\ maxShaftDistance > 0
    /\ foundSolutions > 0
    /\ skippedSolutions > 0
    /\ foundSolutions + discardedSolutions < permutationCount

\* A gear train's deviation from the desired output multiplier.
Deviation(train) == RatAbs(RatSub(train.outputMultiplier, desiredOutputMultiplier))

\* C9: after finalizeCalculation() the results are in ascending order of
\* deviation from the desired multiplier, and of maxForce among equal
\* deviations.
C9_ResultsRanked ==
    finalized =>
        \A i, j \in DOMAIN gearTrains :
            i < j =>
                \/ RatLess(Deviation(gearTrains[i]), Deviation(gearTrains[j]))
                \/ /\ Deviation(gearTrains[i]) = Deviation(gearTrains[j])
                   /\ ~RatLess(gearTrains[j].maxForce, gearTrains[i].maxForce)

C9_Witness ==
    /\ finalized
    /\ \E i, j \in DOMAIN gearTrains :
        /\ i < j
        /\ Deviation(gearTrains[i]) = Deviation(gearTrains[j])
        /\ RatLess(gearTrains[i].maxForce, gearTrains[j].maxForce)
    /\ \E i, j \in DOMAIN gearTrains :
        RatLess(Deviation(gearTrains[i]), Deviation(gearTrains[j]))

\* C10: no gear train in the results uses a change gear more often than the
\* pool holds it.
C10_NoGearUsedTwice ==
    \A k \in DOMAIN gearTrains :
        \A t \in TeethOf(gearTrains[k].shafts) :
            UsedCount(gearTrains[k].shafts, t) <= Count(changeGearSet, t)

C10_Witness ==
    /\ completed
    /\ sharedInputGearSet
    /\ shaftCount = 3
    /\ \E k \in DOMAIN gearTrains :
        \E t \in TeethOf(gearTrains[k].shafts) :
            /\ UsedCount(gearTrains[k].shafts, t) = 2
            /\ Count(changeGearSet, t) = 2

\* C11: in every registered train the last shaft does not interfere with the
\* shaft before it, tested from the upstream shaft to the downstream one with
\* the engine's addendum.
C11_LastPairClear ==
    \A k \in DOMAIN gearTrains :
        ~shaftsInterfere(At(gearTrains[k].shafts, shaftCount - 2),
                         At(gearTrains[k].shafts, shaftCount - 1), AddendumHundredths)

\* A finished search that registered some trains and rejected others for interference.
C11_Witness ==
    /\ completed
    /\ gearTrains # <<>>
    /\ discardedSolutions > 0

\* The size a shaft contributes on the side that does not mesh: its spacer
\* when it carries one gear, else the gear named.
NonMeshingSide(shaft, gear) == IF shaft.gearCount = 1 THEN shaft.spacerSize ELSE gear

\* C12: shaftsInterfere(input, output, addendum) is true exactly when the
\* non-meshing sizes of the two shafts plus twice the addendum are strictly
\* greater than input.outputGear + output.inputGear; two single 20-tooth
\* gears with spacer 0 and addendum 1.25 do not interfere, and equal
\* distances are not interference.
C12_InterfereIffStrictlyGreater ==
    (probe.op = "shaftsInterfere" /\ probe.done) =>
        LET nonMeshing100 == 100 * (NonMeshingSide(probe.input, probe.input.inputGear)
                                    + NonMeshingSide(probe.output, probe.output.outputGear))
                             + 2 * probe.addendum
            meshing100 == 100 * (probe.input.outputGear + probe.output.inputGear)
        IN  /\ probe.result <=> (nonMeshing100 > meshing100)
            /\ nonMeshing100 = meshing100 => ~probe.result
            /\ (/\ probe.input = Shaft(20, 0, 0)
                /\ probe.output = Shaft(20, 0, 0)
                /\ probe.addendum = 125) => ~probe.result

\* The call made on a pair whose two distances are equal.
C12_Witness ==
    /\ probe.op = "shaftsInterfere"
    /\ probe.done
    /\ probe.input.gearCount = 2
    /\ probe.output.gearCount = 1
    /\ 100 * (probe.input.inputGear + probe.output.spacerSize) + 2 * probe.addendum
         = 100 * (probe.input.outputGear + probe.output.inputGear)

RECURSIVE ProductOf(_)
\* The product of a sequence of integers.
ProductOf(seq) == IF seq = <<>> THEN 1 ELSE seq[1] * ProductOf(Tail(seq))

RECURSIVE RatioProduct(_)
\* The product of a sequence of ratios <<n, d>>, as a ratio not reduced.
RatioProduct(seq) ==
    IF seq = <<>> THEN <<1, 1>>
    ELSE LET rest == RatioProduct(Tail(seq))
         IN  <<seq[1][1] * rest[1], seq[1][2] * rest[2]>>

\* Two ratios <<n, d>> of the same value.
SameRatio(a, b) == a[1] * b[2] = a[2] * b[1]

\* C13: every registered train stores the product of its consecutive
\* output/input ratios as outputMultiplier, the product of the driving output
\* gears as numerator and the product of the driven input gears as
\* denominator, and outputMultiplier is numerator / denominator.
C13_StoredMultiplierIsRatioProduct ==
    \A k \in DOMAIN gearTrains :
        LET train == gearTrains[k]
            s == train.shafts
            outputs == [i \in 1..(Len(s) - 1) |-> s[i].outputGear]
            inputs == [i \in 1..(Len(s) - 1) |-> s[i + 1].inputGear]
            ratios == [i \in 1..(Len(s) - 1) |-> <<s[i].outputGear, s[i + 1].inputGear>>]
        IN  /\ SameRatio(train.outputMultiplier, RatioProduct(ratios))
            /\ train.numerator = ProductOf(outputs)
            /\ train.denominator = ProductOf(inputs)
            /\ SameRatio(train.outputMultiplier, <<train.numerator, train.denominator>>)

\* A registered train whose middle shaft carries two different gears, so that
\* the ratio is not 1 and the driving and driven gears differ.
C13_Witness ==
    \E k \in DOMAIN gearTrains :
        /\ Len(gearTrains[k].shafts) = 3
        /\ gearTrains[k].shafts[2].gearCount = 2
        /\ gearTrains[k].shafts[2].inputGear # gearTrains[k].shafts[2].outputGear
        /\ gearTrains[k].outputMultiplier # <<1, 1>>

CountStep(shaftCnt, gearCount) ==
    gearCount * calculatePermutationCount(shaftCnt - 1, gearCount - 1)
    + gearCount * (gearCount - 1) * calculatePermutationCount(shaftCnt - 1, gearCount - 2)

\* C15 as stated: count(shaftCount, gearCount) is 1 when shaftCount = 1 and
\* otherwise gearCount * count(shaftCount - 1, gearCount - 1)
\* + gearCount * (gearCount - 1) * count(shaftCount - 1, gearCount - 2).
C15_CountIsOneOnLastShaft ==
    (probe.op = "calculatePermutationCount" /\ probe.done) =>
        probe.result = IF probe.shaftCount = 1 THEN 1
                       ELSE CountStep(probe.shaftCount, probe.gearCount)

\* C15 as amended: count(shaftCount, gearCount) is gearCount when
\* shaftCount = 1 and otherwise gearCount * count(shaftCount - 1, gearCount - 1)
\* + gearCount * (gearCount - 1) * count(shaftCount - 1, gearCount - 2).
C15_CountIsGearCountOnLastShaft ==
    (probe.op = "calculatePermutationCount" /\ probe.done) =>
        /\ probe.result = IF probe.shaftCount = 1 THEN probe.gearCount
                          ELSE CountStep(probe.shaftCount, probe.gearCount)
        /\ (probe.shaftCount = 2 /\ probe.gearCount = 3) => probe.result = 12

\* The count taken for the last shaft alone over several gears.
C15_Witness ==
    /\ probe.op = "calculatePermutationCount"
    /\ probe.done
    /\ probe.shaftCount = 1
    /\ probe.gearCount > 1
    /\ probe.result = probe.gearCount

\* The minimum shaft distance is set and lies above the distance of every
\* train the pools allow.
MinAboveEveryCandidate ==
    /\ minShaftDistance > 0
    /\ \A s \in Assignments :
          (\A t \in TeethOf(s) : UsedCount(s, t) <= Count(changeGearSet, t))
              => TrainDistance2(s) < 2 * minShaftDistance

\* C16: with the minimum shaft distance above the distance of every candidate
\* the search still completes, and at completion nothing is found, the results
\* are empty and found + skipped + discarded is the total, so that every
\* candidate has been counted as skipped or discarded.
C16_AllRejectedAndCounted ==
    /\ MinAboveEveryCandidate => <>completed
    /\ []((MinAboveEveryCandidate /\ completed) =>
            /\ foundSolutions = 0
            /\ gearTrains = <<>>
            /\ skippedSolutions + discardedSolutions = permutationCount)

\* A finished search over three shafts whose candidates were all below the minimum.
C16_Witness ==
    /\ MinAboveEveryCandidate
    /\ completed
    /\ shaftCount = 3
    /\ permutationCount > 0
    /\ foundSolutions = 0
    /\ skippedSolutions > 0

\* C17: a call of iterate() leaves every train already in the results as it
\* was, shafts and outputMultiplier included, whatever it writes to the
\* engine's own shafts array.
C17_ResultsAreSnapshots ==
    [][iterate =>
         \A k \in DOMAIN gearTrains :
            /\ k \in DOMAIN gearTrains'
            /\ gearTrains'[k].shafts = gearTrains[k].shafts
            /\ gearTrains'[k].outputMultiplier = gearTrains[k].outputMultiplier
            /\ gearTrains'[k] = gearTrains[k]]_vars

\* Two trains are registered and the engine's shafts array has since been
\* overwritten: it differs from the shafts of both.
C17_Witness ==
    /\ Len(gearTrains) >= 2
    /\ \A k \in DOMAIN gearTrains : gearTrains[k].shafts # shafts
    /\ gearTrains[1].shafts # gearTrains[2].shafts

\* The frame iterate() pushes for the input gear at inputGearIndex.
SeedFrame ==
    PermutationStackFrame(SeedAvailableGears(At(firstGearSet, inputGearIndex)), 1, 0, 0)

\* The counters of the search, added up.
Accounted == foundSolutions + skippedSolutions + discardedSolutions

\* C18 as stated: a call of iterate() that takes an input gear places it on
\* shaft 0, pushes one frame for shaft 1 with both cursors at 0, advances
\* inputGearIndex and returns false with that frame still on the stack,
\* unprocessed.
C18_SeedCallStopsAtPush ==
    [][inputGearIndex' # inputGearIndex =>
         /\ permutationStack = <<>>
         /\ inputGearIndex' = inputGearIndex + 1
         /\ ~completed'
         /\ shafts' = SetAt(shafts, 0, Shaft(At(firstGearSet, inputGearIndex), 0,
                                              inputAdjacentSize))
         /\ permutationStack' = <<SeedFrame>>
         /\ Accounted' = Accounted]_vars

\* C18 as amended: a call of iterate() either continues the stack or takes an
\* input gear, and the call that takes an input gear places it on shaft 0,
\* pushes one frame for shaft 1 with both cursors at 0, advances inputGearIndex
\* and then processes that frame once in the same call before returning false:
\* with two shafts every gear of the frame's pool is tried on the last shaft
\* and the stack is empty again; with more shafts the frame goes back with
\* outputIndex 1 under a new frame for shaft 2, or is dropped if its pool is empty.
C18_SeedCallProcessesItsFrame ==
    [][inputGearIndex' # inputGearIndex =>
         /\ permutationStack = <<>>
         /\ inputGearIndex' = inputGearIndex + 1
         /\ ~completed'
         /\ At(shafts', 0) = Shaft(At(firstGearSet, inputGearIndex), 0, inputAdjacentSize)
         /\ LET pool == SeedFrame.availableGears
            IN  IF shaftCount = 2
                THEN /\ permutationStack' = <<>>
                     /\ Accounted' = Accounted + Len(pool)
                ELSE IF pool = <<>>
                THEN /\ permutationStack' = <<>>
                     /\ Accounted' = Accounted
                ELSE /\ permutationStack' =
                          <<[SeedFrame EXCEPT !.outputIndex = 1],
                            PermutationStackFrame(Tail(pool), 2, 0, 0)>>
                     /\ At(shafts', 1) = Shaft(pool[1], 0, spacerSize)
                     /\ Accounted' = Accounted]_vars

\* The state a call that took an input gear returns in, with three shafts: the
\* frame of shaft 1 already resumed at outputIndex 1 under a frame for shaft 2.
C18_Witness ==
    /\ inputGearIndex > 0
    /\ Len(permutationStack) = 2
    /\ permutationStack[1].currentShaft = 1
    /\ permutationStack[1].inputIndex = 0
    /\ permutationStack[1].outputIndex = 1
    /\ permutationStack[2].currentShaft = 2
    /\ permutationStack[2].inputIndex = 0
    /\ permutationStack[2].outputIndex = 0
    /\ ~completed

\* gearCount is 1 or 2, and a shaft of one gear has it as input and output gear.
WellFormedShaft(shaft) ==
    /\ shaft.gearCount \in {1, 2}
    /\ shaft.gearCount = 1 => shaft.inputGear = shaft.outputGear

\* C19: every shaft placed in the engine's shafts array and every shaft of a
\* registered train has gearCount 1 or 2, with inputGear = outputGear when
\* gearCount is 1.
C19_ShaftsWellFormed ==
    /\ \A i \in DOMAIN shafts : shafts[i] # NoShaft => WellFormedShaft(shafts[i])
    /\ \A k \in DOMAIN gearTrains :
          \A i \in DOMAIN gearTrains[k].shafts :
              /\ gearTrains[k].shafts[i] # NoShaft
              /\ WellFormedShaft(gearTrains[k].shafts[i])

\* The results hold a train with a one-gear and a two-gear shaft of different
\* gears, and every position of the shafts array is filled.
C19_Witness ==
    /\ \A i \in DOMAIN shafts : shafts[i] # NoShaft
    /\ \E k \in DOMAIN gearTrains :
          /\ gearTrains[k].shafts[1].gearCount = 1
          /\ gearTrains[k].shafts[2].gearCount = 2
          /\ gearTrains[k].shafts[2].inputGear # gearTrains[k].shafts[2].outputGear

\* The frame the next call of iterate() pops, and the choice it makes from it:
\* the cursors after the wrap of outputIndex at the end of the pool.
TopFrame == permutationStack[Len(permutationStack)]
TopPool == TopFrame.availableGears
TopWrapped == TopFrame.outputIndex >= Len(TopPool)
TopOutputIndex == IF TopWrapped THEN 0 ELSE TopFrame.outputIndex
TopInputIndex == IF TopWrapped THEN TopFrame.inputIndex + 1 ELSE TopFrame.inputIndex

\* The next call makes a choice for a shaft that is not the last, at an
\* outputIndex above 0 whose gear has the tooth count of the one before it.
RepeatedOutputChoice ==
    /\ permutationStack # <<>>
    /\ TopFrame.currentShaft < shaftCount - 1
    /\ TopInputIndex < Len(TopPool)
    /\ TopOutputIndex > 0
    /\ At(TopPool, TopOutputIndex) = At(TopPool, TopOutputIndex - 1)

\* The call pushes the frame back without a frame for the next shaft and adds
\* the permutation count of the remaining shafts over the reduced pool to skipped.
ChoiceSkipped ==
    /\ Len(permutationStack') = Len(permutationStack)
    /\ permutationStack'[Len(permutationStack')].currentShaft = TopFrame.currentShaft
    /\ skippedSolutions' = skippedSolutions
         + calculatePermutationCount(
               shaftCount - TopFrame.currentShaft - 1,
               Len(TopPool) - (IF TopInputIndex = TopOutputIndex THEN 1 ELSE 2))

\* The call pushes the frame back and a frame for the next shaft on top of it.
ChoiceExplored ==
    /\ Len(permutationStack') = Len(permutationStack) + 1
    /\ permutationStack'[Len(permutationStack')].currentShaft = TopFrame.currentShaft + 1
    /\ permutationStack'[Len(permutationStack')].inputIndex = 0
    /\ permutationStack'[Len(permutationStack')].outputIndex = 0
    /\ skippedSolutions' = skippedSolutions

CommittedBelow(k, t) ==
    Cardinality({i \in 1..(k - 1) : At(shafts, i).inputGear = t})
    + Cardinality({i \in 1..(k - 1) :
                      At(shafts, i).gearCount = 2 /\ At(shafts, i).outputGear = t})
    + (IF sharedInputGearSet /\ At(shafts, 0).inputGear = t THEN 1 ELSE 0)

\* C21: for every frame on the stack, of shaft k, the gears of its
\* availableGears together with the gears on shafts 1..k-1 and, when the
\* input gear is taken from the change gears, the gear of shaft 0 are the
\* change gears, tooth count by tooth count; so the frame of shaft 1 misses
\* one gear of the input gear's tooth count in shared mode and none otherwise.
C21_PoolIsWhatIsLeft ==
    \A p \in DOMAIN permutationStack :
        LET frame == permutationStack[p]
            seed == At(shafts, 0).inputGear
        IN  /\ \A t \in {changeGearSet[i] : i \in DOMAIN changeGearSet}
                        \cup {frame.availableGears[i] : i \in DOMAIN frame.availableGears}
                        \cup {seed} :
                  Count(frame.availableGears, t) + CommittedBelow(frame.currentShaft, t)
                      = Count(changeGearSet, t)
            /\ frame.currentShaft = 1 =>
                  Count(frame.availableGears, seed)
                      = Count(changeGearSet, seed) - (IF sharedInputGearSet THEN 1 ELSE 0)

\* A frame for shaft 2 above a two-gear shaft 1, in shared mode with the input
\* gear's tooth count twice among the change gears.
C21_Witness ==
    /\ sharedInputGearSet
    /\ Count(changeGearSet, At(shafts, 0).inputGear) >= 2
    /\ Len(permutationStack) = 2
    /\ permutationStack[2].currentShaft = 2
    /\ At(shafts, 1).gearCount = 2
    /\ Len(permutationStack[2].availableGears) = Len(changeGearSet) - 3

\* C22: a step leaves the shafts below every frame that stays on the stack as
\* they were: for a frame of shaft k at the same place of the stack before and
\* after the step, positions 0..k-1 of the shafts array are unchanged; and
\* a train registered from a frame of the stack has, below its last shaft, the
\* shafts that were in the array when the step began.
C22_ShaftsBelowFramesKept ==
    [][/\ \A p \in DOMAIN permutationStack \cap DOMAIN permutationStack' :
             permutationStack'[p].currentShaft = permutationStack[p].currentShaft
                 => \A i \in 0..(permutationStack[p].currentShaft - 1) :
                        At(shafts', i) = At(shafts, i)
       /\ permutationStack # <<>> =>
             \A k \in DOMAIN gearTrains' \ DOMAIN gearTrains :
                 \A i \in 0..(shaftCount - 2) :
                     At(gearTrains'[k].shafts, i) = At(shafts, i)]_vars

\* Two frames on the stack, the lower one resumed at least twice, after trains
\* have been registered: the last shaft's slot has been written for another
\* branch already.
C22_Witness ==
    /\ Len(permutationStack) = 2
    /\ permutationStack[1].currentShaft = 1
    /\ permutationStack[1].outputIndex > 1
    /\ permutationStack[2].currentShaft = 2
    /\ foundSolutions > 0

\* C23: inputGearIndex never decreases; it moves only with the stack empty,
\* by one, and the call that moves it puts the pool's entry at the old index
\* on shaft 0; and when iterate() has reported completion every entry of the
\* first-shaft pool has been taken.
C23_SeedsInPoolOrder ==
    /\ [](completed => inputGearIndex = Len(firstGearSet))
    /\ [][/\ inputGearIndex' >= inputGearIndex
          /\ inputGearIndex' # inputGearIndex =>
                /\ permutationStack = <<>>
                /\ inputGearIndex' = inputGearIndex + 1
                /\ inputGearIndex < Len(firstGearSet)
                /\ At(shafts', 0).inputGear = At(firstGearSet, inputGearIndex)]_vars

\* A finished search over a first-shaft pool of different gears, the last of
\* them on shaft 0.
C23_Witness ==
    /\ completed
    /\ Len(firstGearSet) >= 2
    /\ firstGearSet[1] # firstGearSet[Len(firstGearSet)]
    /\ inputGearIndex = Len(firstGearSet)
    /\ At(shafts, 0).inputGear = firstGearSet[Len(firstGearSet)]

\* The torque on shaft i of a shaft sequence: 1 on shaft 0, times
\* inputGear / outputGear of the shaft before at every step to the next shaft.
TorqueOn(s, i) ==
    RatioProduct([j \in 1..i |-> <<At(s, j).inputGear, At(s, j - 1).outputGear>>])

\* The tooth forces of a shaft sequence: the torque on each shaft over the
\* tooth count of each gear on it, in lowest terms.
ToothForces(s) ==
    {Rat(TorqueOn(s, i)[1], TorqueOn(s, i)[2] * At(s, i).inputGear) : i \in 0..(Len(s) - 1)}
    \cup
    {Rat(TorqueOn(s, i)[1], TorqueOn(s, i)[2] * At(s, i).outputGear) : i \in 0..(Len(s) - 1)}

Ascending(seq) == \A i \in 1..(Len(seq) - 1) : seq[i] <= seq[i + 1]

\* C25: once the page has set up a calculation, the engine's changeGearSet,
\* and its inputGearSet when the input gears are a set of their own, are in
\* ascending numeric order.
C25_GearSetsAscending ==
    driver.setups > 0 =>
        /\ Ascending(changeGearSet)
        /\ ~sharedInputGearSet => Ascending(inputGearSet)

\* C29: finalizeCalculation() and displayResults() run at most once on the
\* engine that the latest form submission made.
C29_FinalizedAtMostOnce == driver.finalizeRuns <= 1

\* The frames on the stack are those of shafts 1, 2, ..., d from the bottom,
\* d at most shaftCount - 1, and a frame that has been pushed back has its
\* input cursor inside its pool.
StackShape ==
    /\ Len(permutationStack) <= shaftCount - 1
    /\ \A p \in DOMAIN permutationStack :
           /\ permutationStack[p].currentShaft = p
           /\ permutationStack[p].outputIndex > 0 =>
                  permutationStack[p].inputIndex < Len(permutationStack[p].availableGears)

\* The next call pops a frame, not of the last shaft, whose input cursor has
\* run past its pool.
TopExhausted ==
    /\ permutationStack # <<>>
    /\ TopFrame.currentShaft < shaftCount - 1
    /\ TopInputIndex >= Len(TopPool)

\* C26 as stated: the stack holds the frames of shafts 1..d, and the last call
\* of iterate() popped at most one frame and pushed at most two.
C26_AtMostTwoPushes ==
    /\ StackShape
    /\ stackOps[1] <= 1
    /\ stackOps[2] <= 2

\* C26: the stack holds the frames of shafts 1..d, d <= shaftCount - 1; a call
\* of iterate() pops at most one frame and pushes at most two, or three when
\* it is the call that takes a new first-shaft gear; a popped frame whose
\* input cursor has run past its pool leaves the stack one frame shorter.
C26_StackShapeAndOps ==
    /\ [](StackShape /\ stackOps[1] <= 1 /\ stackOps[2] <= 3)
    /\ [][/\ inputGearIndex' = inputGearIndex => stackOps'[2] <= 2
          /\ TopExhausted =>
                 permutationStack' = SubSeq(permutationStack, 1, Len(permutationStack) - 1)]_vars

C26_Witness ==
    /\ stackOps = <<1, 3>>
    /\ Len(permutationStack) = 2
    /\ permutationStack[1].outputIndex > 0
    /\ \E k \in DOMAIN gearTrains : TRUE

\* C27: on an engine that has been set up, however often, the number of
\* GearTrains in the results equals foundSolutions.
C27_ResultsCountIsFound ==
    driver.setups >= 1 => foundSolutions = Len(gearTrains)

\* C28: the candidates accounted for never exceed the total; no counter goes
\* down from one call to the next, and the total set up is never changed.
C28_CountersWithinTotal ==
    /\ [](foundSolutions + skippedSolutions + discardedSolutions <= permutationCount)
    /\ [][/\ foundSolutions' >= foundSolutions
          /\ skippedSolutions' >= skippedSolutions
          /\ discardedSolutions' >= discardedSolutions
          /\ permutationCount' = permutationCount]_vars

C28_Witness ==
    /\ foundSolutions > 0
    /\ skippedSolutions > 0
    /\ discardedSolutions > 0
    /\ permutationStack # <<>>
    /\ foundSolutions + skippedSolutions + discardedSolutions < permutationCount

\* Two result lists hold the same GearTrains, each as often as the other.
SameTrains(a, b) ==
    /\ Len(a) = Len(b)
    /\ \A k \in DOMAIN a : Count(a, a[k]) = Count(b, a[k])

\* C30: a finalizeCalculation() step (the only step taken from a completed
\* search that is not a call of iterate()) leaves the results the same
\* GearTrains, each as often as before, and the counters, the total, the
\* stack and the first-shaft cursor as they were.
C30_FinalizeOnlyReorders ==
    [][(completed /\ finishedCalls' = finishedCalls) =>
           /\ SameTrains(gearTrains, gearTrains')
           /\ UNCHANGED <<foundSolutions, skippedSolutions, discardedSolutions,
                          permutationCount, permutationStack, inputGearIndex>>]_vars

\* Finalized results that hold a train twice and are not in the order found:
\* a train of a larger first gear stands before one of a smaller.
C30_Witness ==
    /\ finalized
    /\ \E j, k \in DOMAIN gearTrains :
           /\ j < k
           /\ At(gearTrains[j].shafts, 0).inputGear > At(gearTrains[k].shafts, 0).inputGear
    /\ \E j, k \in DOMAIN gearTrains : j # k /\ gearTrains[j] = gearTrains[k]

\* C31: no step changes changeGearSet or inputGearSet, and a frame that stays
\* on the stack keeps its pool whatever is removed for the shafts above it.
C31_ConfigurationAndPoolsKept ==
    [][/\ changeGearSet' = changeGearSet
       /\ inputGearSet' = inputGearSet
       /\ \A p \in DOMAIN permutationStack \cap DOMAIN permutationStack' :
              permutationStack'[p].availableGears = permutationStack[p].availableGears]_vars

\* A first-shaft gear has been taken out of a copy of the shared pool, and a
\* frame that was pushed back lies under a child frame with a smaller pool.
C31_Witness ==
    /\ sharedInputGearSet
    /\ inputGearIndex >= 1
    /\ Len(permutationStack) = 2
    /\ permutationStack[1].outputIndex > 0
    /\ Len(permutationStack[1].availableGears) = Len(changeGearSet) - 1
    /\ Len(permutationStack[2].availableGears) < Len(permutationStack[1].availableGears)

\* The next call of iterate() runs the final-shaft loop: the frame on top of
\* the stack is the last shaft's, or, with two shafts, the call takes the next
\* first-shaft gear and runs the loop on the frame it pushes.
NextIsFinal ==
    \/ (permutationStack # <<>> /\ TopFrame.currentShaft = shaftCount - 1)
    \/ (permutationStack = <<>> /\ shaftCount = 2 /\ inputGearIndex < Len(firstGearSet))

\* The pool that loop runs over, and the shafts it finds below the last one.
NextFinalPool ==
    IF permutationStack # <<>> THEN TopPool
    ELSE SeedAvailableGears(At(firstGearSet, inputGearIndex))
NextFinalShafts ==
    IF permutationStack # <<>> THEN shafts
    ELSE SetAt(shafts, 0, Shaft(At(firstGearSet, inputGearIndex), 0, inputAdjacentSize))

\* The distance check on the train with the pool's candidate l on the last shaft.
CandidateViolates(l) ==
    constraintsViolated(SetAt(NextFinalShafts, shaftCount - 1,
                              Shaft(At(NextFinalPool, l), 0, spacerSize)),
                        shaftCount - 1)

\* The candidates the loop passes over for repeating the tooth count before them.
RepeatedCandidates ==
    Cardinality({l \in 1..(Len(NextFinalPool) - 1) :
                    At(NextFinalPool, l - 1) = At(NextFinalPool, l)})

\* C32: a call that runs the final-shaft loop finds the distance check either
\* violated for every candidate of the pool, and counts them all as skipped,
\* or violated for none, and counts as skipped only the repeated tooth counts.
C32_DistanceCheckSameForAllCandidates ==
    [][NextIsFinal =>
           LET all == 0..(Len(NextFinalPool) - 1)
           IN  \/ /\ \A l \in all : CandidateViolates(l)
                  /\ skippedSolutions' = skippedSolutions + Len(NextFinalPool)
                  /\ foundSolutions' = foundSolutions
                  /\ discardedSolutions' = discardedSolutions
               \/ /\ \A l \in all : ~CandidateViolates(l)
                  /\ skippedSolutions' = skippedSolutions + RepeatedCandidates
                  /\ foundSolutions' + discardedSolutions' =
                         foundSolutions + discardedSolutions
                             + Len(NextFinalPool) - RepeatedCandidates]_vars

\* A final-shaft loop over three shafts has just run with a distance bound
\* set: the last candidate, of a tooth count other than the first shaft's,
\* is on the last shaft, the check rejects it, and nothing has been found.
C32_Witness ==
    /\ shaftCount = 3
    /\ minShaftDistance > 0 \/ maxShaftDistance > 0
    /\ stackOps = <<1, 0>>
    /\ At(shafts, 2).inputGear # 0
    /\ At(shafts, 2).inputGear # At(shafts, 0).inputGear
    /\ constraintsViolated(shafts, 2)
    /\ skippedSolutions >= 2
    /\ foundSolutions = 0
    /\ discardedSolutions = 0

====
